---- MODULE Spec2Model ----
(***************************************************************************)
(* A model of solar_collector.py: the persisted battery state-of-charge    *)
(* estimator, the metrics aggregator, the upload worker with its spill     *)
(* file, and the scheduler loop that drives them.                          *)
(*                                                                         *)
(* Numbers.  The program computes in floats; the model computes in exact   *)
(* integers of the following units.                                        *)
(*   current   whole amps                                                  *)
(*   charge    the charge one amp moves in one collection interval, so     *)
(*             that 1 Ah is UnitsPerAh units and the per-tick delta        *)
(*             battery_amps * (collection_interval_sec / 3600.0) is        *)
(*             battery_amps units                                          *)
(*   voltage   tenths of a volt                                            *)
(*   percent   a numerator over PercentDen                                 *)
(*   time      whole seconds                                               *)
(* NaN and infinities are outside the model.                               *)
(***************************************************************************)
EXTENDS Integers, Sequences, FiniteSets, TLC

VARIABLES
    state_file,        \* contents of battery_state_file
    ret,               \* what the last estimator call returned
    tick_log,          \* what the last get_current_metrics() did to the estimator
    call,              \* history: the last estimator call made on its own, its
                       \* argument and the state file it found
    heap,              \* the record objects handed to enqueue(), by identity
    queue,             \* MetricUploader._queue: references into heap, oldest first
    put_pending,       \* enqueue(list): the elements its loop has yet to put
    worker_pc,         \* where MetricUploader._run stands
    metric_collection, \* _run's local: the reference it dequeued (0: none)
    json_data,         \* _run's local: the serialized request body
    in_flight,         \* requests.post calls that have not returned
    spill_file,        \* lines of failed_upload_file
    handed,            \* history: references in the order handed to enqueue()
    post_log,          \* history: references in the order POSTed
    outcome_log,       \* history: per processed job, its payload and whether the
                       \* server answered 2xx with JSON holding no "error"
    now,               \* the wall clock, time.time()
    is_daytime,        \* the global day/night flag
    daytime_call,      \* the readings and prior flag of the last update_daytime_state()
                       \* call made on its own
    metrics,           \* MetricsCollection._metrics: key -> list of values
    next_upload_time,  \* status_loop's local
    upload_interval_sec, \* status_loop's local
    delay,             \* status_loop's local
    sched_pc,          \* where status_loop stands
    ticks,             \* history: samples taken so far
    crossings,         \* history: upload-boundary crossings so far
    hash_order,        \* the order in which a dict of this process iterates the
                       \* charging modes
    agg_call,          \* history: the last call on a MetricsCollection made on
                       \* its own, the histories it found and what it returned
    account            \* history: for every sample status_loop took its timestamp
                       \* and the crossings before it, and for every record it
                       \* enqueued the timestamps of the samples in the histories
                       \* it was aggregated from

battery_vars == <<state_file, ret, tick_log, call>>
producer_vars == <<heap, put_pending, handed>>
sched_vars == <<now, is_daytime, metrics, next_upload_time, upload_interval_sec,
                delay, sched_pc, crossings>>
other_vars == <<hash_order, agg_call, account>>
worker_vars == <<worker_pc, metric_collection, json_data, in_flight, spill_file,
                 post_log, outcome_log>>

----------------------------------------------------------------------------
(* Program constants *)

collection_interval_sec == 5
day_upload_interval_sec == 60
night_upload_interval_sec == 600
total_capacity_ah == 125
cell_count == 24

\* charge units per amp-hour: 3600 s / collection interval
UnitsPerAh == 3600 \div collection_interval_sec
\* total_capacity_ah in charge units
CapacityUnits == total_capacity_ah * UnitsPerAh
\* percentages are numerators over this denominator
PercentDen == CapacityUnits
\* _cell_float_voltage = 2.3 V, in tenths of a volt
cell_float_voltage == 23

----------------------------------------------------------------------------
(* Bounds of the model *)

MaxTicks == 3
MaxJobs == 3

----------------------------------------------------------------------------
(* clamp_value *)

clamp_value(val, min_val, max_val) ==
    IF val < min_val THEN min_val ELSE IF val > max_val THEN max_val ELSE val

Abs(x) == IF x < 0 THEN -x ELSE x

----------------------------------------------------------------------------
(* StateManager.  The state file is missing, empty, holds bytes that are   *)
(* no JSON ("garbage"), holds a JSON value that is no object ("null"), or  *)
(* holds a JSON object.  An object is kept as the file keeps it: each key  *)
(* with the text of its number.                                            *)

defaults ==
    [remaining_capacity_ah |-> 0,
     charging_correction_factor |-> 1,
     discharging_correction_factor |-> 1]

\* dict.update(): the entries of u over those of d
DictUpdate(d, u) ==
    [k \in DOMAIN d \cup DOMAIN u |-> IF k \in DOMAIN u THEN u[k] ELSE d[k]]

\* the decimal digits of n >= 0, most significant first
RECURSIVE Digits(_)
Digits(n) == IF n < 10 THEN <<n>> ELSE Append(Digits(n \div 10), n % 10)

\* the number a digit string denotes
RECURSIVE DigitsValue(_)
DigitsValue(s) ==
    IF s = <<>> THEN 0 ELSE 10 * DigitsValue(SubSeq(s, 1, Len(s) - 1)) + s[Len(s)]

json_dump_number_rounded(n) ==
    [negative |-> n < 0, digits |-> Digits(((IF n < 0 THEN -n ELSE n) \div 10) * 10)]

\* json.dump of a number writes its repr(): a sign and all its digits
json_dump_number(n) ==
    [negative |-> n < 0, digits |-> Digits(IF n < 0 THEN -n ELSE n)]

\* json.load of a number's text
json_load_number(text) ==
    IF text.negative THEN -DigitsValue(text.digits) ELSE DigitsValue(text.digits)

\* json.dump(self._state_dict, self._state_fp)
json_dump(d) == [k \in DOMAIN d |-> json_dump_number(d[k])]

\* json.load(self._state_fp) of a file holding an object
json_load(object) == [k \in DOMAIN object |-> json_load_number(object[k])]

NoObject == [k \in {} |-> 0]

\* no state file on disk
NoFile == [content |-> "missing", object |-> NoObject]

\* __init__: open(mode='r+'), and on IOError open(mode='w+'), which creates
\* the file empty
StateManagerInit(file) ==
    IF file.content = "missing" THEN [file EXCEPT !.content = "empty"] ELSE file

\* json.load() raises ValueError: nothing to decode.  __enter__ catches it.
LoadRaisesValueError(file) == file.content \in {"missing", "empty", "garbage"}

\* json.load() returns a value dict.update() cannot take (None, a number):
\* TypeError, which __enter__ does not catch; __exit__ is not run
EnterRaises(file) == file.content = "null"

StateManagerEnter_defaults_only(file) == defaults

\* __enter__: defaults.copy() updated with json.load(), or the defaults alone
\* when json.load() raises ValueError
StateManagerEnter(file) ==
    IF LoadRaisesValueError(file) THEN defaults
    ELSE DictUpdate(defaults, json_load(file.object))

\* __exit__: truncate and json.dump the in-memory record
StateManagerExit(b_state) == [content |-> "object", object |-> json_dump(b_state)]

\* a with-block whose body leaves b_state alone
Rewrite(file) == StateManagerExit(StateManagerEnter(file))

----------------------------------------------------------------------------
(* SealedLeadAcidBatterySoC, as functions of the file *)

\* the value get_percent_charged() returns, as a numerator over PercentDen
get_percent_charged(file) ==
    clamp_value(StateManagerEnter(file).remaining_capacity_ah * 100,
                0, 100 * PercentDen)

\* the value get_remaining_capacity() returns
get_remaining_capacity(file) ==
    clamp_value(StateManagerEnter(file).remaining_capacity_ah, 0, CapacityUnits)

\* the file set_remaining_capacity(capacity) leaves
set_remaining_capacity(file, capacity) ==
    StateManagerExit([StateManagerEnter(file) EXCEPT
        !.remaining_capacity_ah = clamp_value(capacity, 0, CapacityUnits)])

\* the capacity set_percent_charged(percent) hands to set_remaining_capacity:
\* total_capacity_ah * (percent_charged / 100.0)
percent_to_capacity(percent_charged) == (CapacityUnits * percent_charged) \div 100

set_percent_charged(file, percent_charged) ==
    set_remaining_capacity(file, percent_to_capacity(percent_charged))

update_factors_swapped(file, amp_hours) ==
    LET b_state == StateManagerEnter(file)
        corrected == IF amp_hours > 0
                     THEN amp_hours * b_state.discharging_correction_factor
                     ELSE amp_hours * b_state.charging_correction_factor
    IN  StateManagerExit([b_state EXCEPT
            !.remaining_capacity_ah =
                clamp_value(b_state.remaining_capacity_ah + corrected,
                            0, CapacityUnits)])

update_unclamped(file, amp_hours) ==
    LET b_state == StateManagerEnter(file)
    IN  StateManagerExit([b_state EXCEPT
            !.remaining_capacity_ah = b_state.remaining_capacity_ah + amp_hours])

\* the file update(amp_hours) leaves
update(file, amp_hours) ==
    LET b_state == StateManagerEnter(file)
        corrected == IF amp_hours > 0
                     THEN amp_hours * b_state.charging_correction_factor
                     ELSE amp_hours * b_state.discharging_correction_factor
        new_remaining_capacity == b_state.remaining_capacity_ah + corrected
    IN  StateManagerExit([b_state EXCEPT
            !.remaining_capacity_ah =
                clamp_value(new_remaining_capacity, 0, CapacityUnits)])

\* c_rate = current / total_capacity_ah, compared without dividing:
\* c_rate <= n/100  iff  100 * current <= n * total_capacity_ah
CRateAtMost(current, hundredths) == 100 * current <= hundredths * total_capacity_ah

\* abs(voltage / cell_count - _cell_float_voltage) <= 0.1, in tenths of a volt
NearFloatVoltage(voltage) == Abs(voltage - cell_float_voltage * cell_count) <= cell_count

estimate_capacity_whenever_near_float(voltage, current, float_charging) ==
    IF 0 <= current /\ CRateAtMost(current, 1) /\ NearFloatVoltage(voltage)
    THEN CapacityUnits
    ELSE IF ~CRateAtMost(current, 1) /\ CRateAtMost(current, 10)
            /\ NearFloatVoltage(voltage)
    THEN CapacityUnits + (2 * (CapacityUnits - 100 * current * UnitsPerAh)) \div 1000
    ELSE 0

\* estimate_capacity_from_voltage(voltage, current, float_charging)
estimate_capacity_from_voltage(voltage, current, float_charging) ==
    IF float_charging /\ 0 <= current /\ CRateAtMost(current, 1)
       /\ NearFloatVoltage(voltage)
    THEN CapacityUnits
    ELSE IF float_charging /\ ~CRateAtMost(current, 1) /\ CRateAtMost(current, 10)
            /\ NearFloatVoltage(voltage)
    THEN \* total * (1.0 + 0.2 * (0.01 - c_rate))
         CapacityUnits + (2 * (CapacityUnits - 100 * current * UnitsPerAh)) \div 1000
    ELSE 0

----------------------------------------------------------------------------
(* Record values.  A timestamp is a datetime until _run formats it for     *)
(* MySQL; a str has no strftime.                                           *)

Datetime(t) == [fmt |-> "datetime", t |-> t]

strftime(ts) == [fmt |-> "str", t |-> ts.t]

\* metric_collection['timestamp'].strftime(...) raises KeyError or
\* AttributeError unless the entry is there and is a datetime
CanFormat(d) == "timestamp" \in DOMAIN d /\ d["timestamp"].fmt = "datetime"

\* json.dumps({'data': [metric_collection]}): a value, cut loose from the object
json_dumps(d) == [data |-> <<d>>]

NoPayload == [data |-> <<>>]

IsPrefix(s, t) == Len(s) <= Len(t) /\ \A i \in 1..Len(s) : s[i] = t[i]

----------------------------------------------------------------------------
(* Queue.Queue(): unbounded FIFO *)

queue_full_bounded(q) == Len(q) >= 1

\* Queue.Queue() has maxsize 0: put() never finds it full
queue_full(q) == FALSE

queue_put(q, item) == Append(q, item)

queue_get_lifo(q) == [item |-> q[Len(q)], rest |-> SubSeq(q, 1, Len(q) - 1)]

\* get(block=True) of a non-empty queue
queue_get(q) == [item |-> Head(q), rest |-> Tail(q)]

----------------------------------------------------------------------------
(* MetricUploader.enqueue *)

\* the records a caller hands over: what aggregate() returns
UploadRecords ==
    { ("timestamp" :> Datetime(t)) @@ ("battery_amps" :> a) :
          t \in {5, 10}, a \in {0, 2} }

Allocated == Len(heap)

\* what a step of the uploader leaves alone
rest_of_program == <<battery_vars, sched_vars, ticks, daytime_call, other_vars>>

\* enqueue(metric_collection), the record a fresh object: one put
enqueue(rec) ==
    /\ put_pending = <<>>
    /\ Allocated < MaxJobs
    /\ ~queue_full(queue)
    /\ heap' = Append(heap, rec)
    /\ queue' = queue_put(queue, Allocated + 1)
    /\ handed' = Append(handed, Allocated + 1)
    /\ UNCHANGED put_pending

\* for m in metric_collection: the order the loop takes the elements in
list_order(refs) == refs

\* a caller hands over one record
EnqueueRecord ==
    /\ \E rec \in UploadRecords : enqueue(rec)
    /\ UNCHANGED <<rest_of_program, worker_vars>>

\* enqueue([r1, r2]): the call starts its loop over the list
enqueue_list(r1, r2) ==
    /\ put_pending = <<>>
    /\ Allocated + 2 <= MaxJobs
    /\ heap' = heap \o <<r1, r2>>
    /\ put_pending' = list_order(<<Allocated + 1, Allocated + 2>>)
    /\ handed' = handed \o <<Allocated + 1, Allocated + 2>>
    /\ UNCHANGED queue

\* a caller hands over a list of two records
EnqueueList ==
    /\ \E r1, r2 \in UploadRecords : enqueue_list(r1, r2)
    /\ UNCHANGED <<rest_of_program, worker_vars>>

\* one self._queue.put(m) of that loop
EnqueuePut ==
    /\ put_pending # <<>>
    /\ ~queue_full(queue)
    /\ queue' = queue_put(queue, Head(put_pending))
    /\ put_pending' = Tail(put_pending)
    /\ UNCHANGED <<heap, handed, rest_of_program, worker_vars>>

----------------------------------------------------------------------------
(* MetricUploader._run *)

\* line 165: metric_collection = self._queue.get(block=True)
Dequeue ==
    /\ worker_pc = "get"
    /\ queue # <<>>
    /\ metric_collection' = queue_get(queue).item
    /\ queue' = queue_get(queue).rest
    /\ worker_pc' = "serialize"
    /\ UNCHANGED <<heap, json_data, in_flight, spill_file, post_log, outcome_log>>
    /\ UNCHANGED <<rest_of_program, put_pending, handed>>

\* lines 168-174: format the timestamp in place, serialize, issue the POST.
\* An exception in the formatting is outside the try: the thread ends.
Serialize ==
    /\ worker_pc = "serialize"
    /\ IF CanFormat(heap[metric_collection])
       THEN /\ heap' = [heap EXCEPT ![metric_collection] =
                           [@ EXCEPT !["timestamp"] = strftime(@)]]
            /\ json_data' = json_dumps(heap'[metric_collection])
            /\ in_flight' = in_flight \cup {metric_collection}
            /\ post_log' = Append(post_log, metric_collection)
            /\ worker_pc' = "post"
       ELSE /\ worker_pc' = "dead"
            /\ UNCHANGED <<heap, json_data, in_flight, post_log>>
    /\ UNCHANGED <<queue, metric_collection, spill_file, outcome_log>>
    /\ UNCHANGED <<rest_of_program, put_pending, handed>>

\* what the POST can come to
PostOutcomes == {"ok", "network_error", "timeout", "http_error", "error_key", "malformed"}

upload_succeeded_ignoring_error_key(outcome) == outcome \in {"ok", "error_key"}

\* lines 174-179: the try block passes iff post() returns, raise_for_status()
\* passes, response.json() parses and holds no 'error'
upload_succeeded(outcome) == outcome = "ok"

\* lines 174-179: the POST returns or raises
PostReturn(outcome) ==
    /\ worker_pc = "post"
    /\ in_flight' = in_flight \ {metric_collection}
    /\ outcome_log' = Append(outcome_log,
           [ref |-> metric_collection, payload |-> json_data,
            accepted |-> outcome = "ok"])
    /\ worker_pc' = IF upload_succeeded(outcome) THEN "task_done" ELSE "spill"
    /\ UNCHANGED <<heap, queue, metric_collection, json_data, spill_file, post_log>>
    /\ UNCHANGED <<rest_of_program, put_pending, handed>>

spill_write_truncating(lines, payload) == <<payload>>

\* open(failed_upload_file, 'a'); f.write(json_data); f.write('\n')
spill_write(lines, payload) == Append(lines, payload)

\* lines 179-184: the except block
Spill ==
    /\ worker_pc = "spill"
    /\ spill_file' = spill_write(spill_file, json_data)
    /\ worker_pc' = "task_done"
    /\ UNCHANGED <<heap, queue, metric_collection, json_data, in_flight,
                   post_log, outcome_log>>
    /\ UNCHANGED <<rest_of_program, put_pending, handed>>

after_task_done_retry == "serialize"

\* while True: what follows task_done()
after_task_done == "get"

\* line 186: self._queue.task_done(), and round the loop
TaskDone ==
    /\ worker_pc = "task_done"
    /\ worker_pc' = after_task_done
    /\ UNCHANGED <<heap, queue, metric_collection, json_data, in_flight,
                   spill_file, post_log, outcome_log>>
    /\ UNCHANGED <<rest_of_program, put_pending, handed>>

\* the POST comes to one of its outcomes
Post == \E outcome \in PostOutcomes : PostReturn(outcome)

----------------------------------------------------------------------------
(* Rounding.  n/d with d > 0, to the nearest integer.                      *)

\* Python 2 round(): halves away from zero
RoundHalfAway(n, d) ==
    IF n >= 0 THEN (2 * n + d) \div (2 * d) ELSE -((2 * (-n) + d) \div (2 * d))

\* numpy round(): halves to the even neighbour
RoundHalfEven(n, d) ==
    LET q == n \div d
        r == n - q * d
    IN  IF 2 * r < d THEN q
        ELSE IF 2 * r > d THEN q + 1
        ELSE IF q % 2 = 0 THEN q ELSE q + 1

RECURSIVE SeqSum(_)
SeqSum(s) == IF s = <<>> THEN 0 ELSE Head(s) + SeqSum(Tail(s))

----------------------------------------------------------------------------
(* MetricsCollection.  A dict is a function on its keys; EmptyDict has none. *)

EmptyDict == [k \in {} |-> 0]

most_recent == {"timestamp", "kwh_today", "kwh_total", "battery_charge"}
most_common == {"pv_charging_mode"}

add_without_timestamp(m, new_metrics) ==
    [k \in (DOMAIN m \cup DOMAIN new_metrics) \ {"timestamp"} |->
        IF k \in DOMAIN new_metrics
        THEN Append(IF k \in DOMAIN m THEN m[k] ELSE <<>>, new_metrics[k])
        ELSE m[k]]

\* add(new_metrics)
add(m, new_metrics) ==
    [k \in DOMAIN m \cup DOMAIN new_metrics |->
        IF k \in DOMAIN new_metrics
        THEN Append(IF k \in DOMAIN m THEN m[k] ELSE <<>>, new_metrics[k])
        ELSE m[k]]

Count(s, v) == Cardinality({i \in 1..Len(s) : s[i] = v})

\* the values collections.Counter(s).most_common()[0][0] can be: one of the most
\* frequent; among equally frequent ones Python 2 takes the first in the
\* Counter's hash order
MostCommon(s) ==
    {v \in {s[i] : i \in 1..Len(s)} : \A j \in 1..Len(s) : Count(s, s[j]) <= Count(s, v)}

MeanTruncated2(s) == (100 * SeqSum(s)) \div Len(s)

\* numpy.mean(numpy.array(s)).round(2), in hundredths
MeanRound2(s) == RoundHalfEven(100 * SeqSum(s), Len(s))

\* aggregate(), with the most common mode taken to be `mode`
aggregate(m, mode) ==
    [k \in DOMAIN m |->
        IF k \in most_recent THEN m[k][Len(m[k])]
        ELSE IF k \in most_common THEN mode
        ELSE MeanRound2(m[k])]

\* the records aggregate() can return
Aggregates(m) ==
    IF "pv_charging_mode" \in DOMAIN m
    THEN {aggregate(m, mode) : mode \in MostCommon(m["pv_charging_mode"])}
    ELSE {aggregate(m, "")}

\* the charging modes get_current_metrics() can report
Modes == {"Float", "MPPT", "Equalization", "Not charging"}

\* Counter.most_common() sorts the Counter's items by count with a stable
\* sort, so equal counts stay in the order the dict iterates its keys: by hash
\* slot.  CPython 2.7 without hash randomization puts the four modes in slots
\* 0 ("Not charging"), 3 ("Float"), 4 ("Equalization") and 7 ("MPPT") of the
\* 8-slot table, on 32-bit and 64-bit builds alike.
DefaultHashOrder == <<"Not charging", "Float", "Equalization", "MPPT">>

\* with hash randomization (python -R, PYTHONHASHSEED) the order is any one,
\* fixed for the life of the process
HashOrders == {o \in [1..4 -> Modes] : \A i, j \in 1..4 : o[i] = o[j] => i = j}

Position(order, v) == CHOOSE i \in 1..Len(order) : order[i] = v

\* collections.Counter(s).most_common()[0][0] in a process of that order
most_common_first(s, order) ==
    CHOOSE v \in MostCommon(s) :
        \A w \in MostCommon(s) : Position(order, v) <= Position(order, w)

\* aggregate() in a process of that order
aggregated_stats(m, order) ==
    aggregate(m, IF "pv_charging_mode" \in DOMAIN m
                 THEN most_common_first(m["pv_charging_mode"], order)
                 ELSE "")

clear_keeping_histories(m) == m

clear_keeping_latest(m) == [k \in DOMAIN m |-> <<m[k][Len(m[k])]>>]

\* clear()
clear(m) == EmptyDict

\* the timestamps of the samples in the histories
Buffered(m) ==
    IF "timestamp" \in DOMAIN m
    THEN {m["timestamp"][i].t : i \in 1..Len(m["timestamp"])}
    ELSE {}

\* nothing sampled, nothing enqueued
NoSamples == [sampled |-> <<>>, contributed |-> <<>>]

----------------------------------------------------------------------------
(* update_daytime_state *)

NoValue == [has_value |-> FALSE, value |-> 0]
Value(v) == [has_value |-> TRUE, value |-> v]

\* what the controller can answer: the Day/Night register (or nothing), the two
\* thresholds and the input voltage, in tenths of a volt
DaylightReadings ==
    [day_night : {NoValue, Value(0), Value(1)},
     day_voltage : {55, 60}, night_voltage : {50, 55},
     current_voltage : {40, 50, 52, 55, 57, 60, 70}]

update_daytime_state_no_hysteresis(was_daytime, r) ==
    IF r.day_night.has_value THEN r.day_night.value = 0
    ELSE r.current_voltage >= r.day_voltage

\* the flag update_daytime_state() leaves
update_daytime_state(was_daytime, r) ==
    IF r.day_night.has_value
    THEN r.day_night.value = 0
    ELSE LET after_night == IF r.current_voltage <= r.night_voltage
                            THEN FALSE ELSE was_daytime
         IN  IF r.current_voltage >= r.day_voltage THEN TRUE ELSE after_night

----------------------------------------------------------------------------
(* get_current_metrics.  Of the fifteen entries of a sample the model keeps *)
(* the five the estimator and the three aggregation policies bear on; the   *)
(* others are sensor values averaged like battery_volts.                    *)

\* (status & 0x000C) >> 2, as a string
ChargingMode(raw) ==
    IF raw = 1 THEN "Float"
    ELSE IF raw = 2 THEN "MPPT"
    ELSE IF raw = 3 THEN "Equalization"
    ELSE "Not charging"

\* one tick's sensor values: the charging-status field, the battery voltage in
\* tenths of a volt, the battery current in amps
SensorReadings ==
    [status : 0..3, battery_volts : {480, 552}, battery_amps : {-5, 0, 5, 20}]

\* lines 323-352: the calls on battery_monitor in their order, and the sample
get_current_metrics(file, r, timestamp) ==
    LET mode == ChargingMode(r.status)
        floating == mode = "Float"
        \* line 324: get_percent_charged() runs only in Float mode
        f1 == IF floating THEN Rewrite(file) ELSE file
        forced == floating /\ get_percent_charged(file) < 98 * PercentDen
        est == estimate_capacity_from_voltage(r.battery_volts, r.battery_amps, TRUE)
        f2 == IF forced THEN set_remaining_capacity(f1, est) ELSE f1
        \* line 329: amps * (collection_interval_sec / 3600.0) is amps units
        f3 == update(f2, r.battery_amps)
        \* line 331: round(percent, 2), in hundredths of a percent
        charge == RoundHalfAway(get_percent_charged(f3) * 100, PercentDen)
        \* lines 331, 342, 343: three reads, each rewriting the file
        f4 == Rewrite(Rewrite(Rewrite(f3)))
    IN  [file |-> f4,
         sample |-> ("pv_charging_mode" :> mode) @@
                    ("battery_volts" :> r.battery_volts) @@
                    ("battery_amps" :> r.battery_amps) @@
                    ("battery_charge" :> charge) @@
                    ("timestamp" :> Datetime(timestamp)),
         log |-> [forced |-> forced,
                  est |-> IF forced THEN est ELSE 0,
                  before |-> StateManagerEnter(file).remaining_capacity_ah,
                  after_set |-> StateManagerEnter(f2).remaining_capacity_ah]]

NoTick == [forced |-> FALSE, est |-> 0, before |-> 0, after_set |-> 0]

----------------------------------------------------------------------------
(* The estimator's operations, called one at a time *)

\* arguments to try: below zero, zero, inside, at and beyond the capacity
CapacityArgs == {-1, 0, CapacityUnits \div 2, CapacityUnits, CapacityUnits + 1}
DeltaArgs == {-2 * CapacityUnits, -(CapacityUnits \div 4), 0,
              CapacityUnits \div 4, 2 * CapacityUnits}
PercentArgs == {-10, 0, 50, 100, 150}

\* a call that returns None
NoReturn == [op |-> "none", value |-> 0]

\* a call that ends in an exception
Raised(exception) == [op |-> exception, value |-> 0]

NoEstimatorCall == [op |-> "none", arg |-> 0, before |-> NoFile]

\* the file a method leaves and what the caller gets, unless
\* StateManager.__enter__ raises: then nothing is written (the constructor has
\* by then created a missing file) and the caller gets the TypeError
FileAfter(file, file_after) ==
    IF EnterRaises(file) THEN StateManagerInit(file) ELSE file_after
Returned(file, returned) ==
    IF EnterRaises(file) THEN Raised("TypeError") ELSE returned

Update(amp_hours) ==
    /\ call' = [op |-> "update", arg |-> amp_hours, before |-> state_file]
    /\ state_file' = FileAfter(state_file, update(state_file, amp_hours))
    /\ ret' = Returned(state_file, NoReturn)
    /\ tick_log' = NoTick
    /\ UNCHANGED ticks
    /\ UNCHANGED <<sched_vars, daytime_call, other_vars, producer_vars, queue, worker_vars>>

\* update(amp_hours) with an amp_hours that is no number (None): line 113
\* raises TypeError inside the with-block, and __exit__ runs all the same
UpdateRaises ==
    /\ call' = [op |-> "update(None)", arg |-> 0, before |-> state_file]
    /\ state_file' = FileAfter(state_file, Rewrite(state_file))
    /\ ret' = Returned(state_file, Raised("TypeError"))
    /\ tick_log' = NoTick
    /\ UNCHANGED ticks
    /\ UNCHANGED <<sched_vars, daytime_call, other_vars, producer_vars, queue, worker_vars>>

SetRemainingCapacity(capacity) ==
    /\ call' = [op |-> "set_remaining_capacity", arg |-> capacity, before |-> state_file]
    /\ state_file' = FileAfter(state_file, set_remaining_capacity(state_file, capacity))
    /\ ret' = Returned(state_file, NoReturn)
    /\ tick_log' = NoTick
    /\ UNCHANGED ticks
    /\ UNCHANGED <<sched_vars, daytime_call, other_vars, producer_vars, queue, worker_vars>>

SetPercentCharged(percent_charged) ==
    /\ call' = [op |-> "set_percent_charged", arg |-> percent_charged, before |-> state_file]
    /\ state_file' = FileAfter(state_file, set_percent_charged(state_file, percent_charged))
    /\ ret' = Returned(state_file, NoReturn)
    /\ tick_log' = NoTick
    /\ UNCHANGED ticks
    /\ UNCHANGED <<sched_vars, daytime_call, other_vars, producer_vars, queue, worker_vars>>

GetPercentCharged ==
    /\ call' = [op |-> "get_percent_charged", arg |-> 0, before |-> state_file]
    /\ state_file' = FileAfter(state_file, Rewrite(state_file))
    /\ ret' = Returned(state_file, [op |-> "get_percent_charged",
                                   value |-> get_percent_charged(state_file)])
    /\ tick_log' = NoTick
    /\ UNCHANGED ticks
    /\ UNCHANGED <<sched_vars, daytime_call, other_vars, producer_vars, queue, worker_vars>>

GetRemainingCapacity ==
    /\ call' = [op |-> "get_remaining_capacity", arg |-> 0, before |-> state_file]
    /\ state_file' = FileAfter(state_file, Rewrite(state_file))
    /\ ret' = Returned(state_file, [op |-> "get_remaining_capacity",
                                   value |-> get_remaining_capacity(state_file)])
    /\ tick_log' = NoTick
    /\ UNCHANGED ticks
    /\ UNCHANGED <<sched_vars, daytime_call, other_vars, producer_vars, queue, worker_vars>>

\* estimate_capacity_from_voltage(), which opens no StateManager
EstimateCapacityFromVoltage(voltage, current, float_charging) ==
    /\ call' = [op |-> "estimate_capacity_from_voltage",
                arg |-> [voltage |-> voltage, current |-> current,
                         float_charging |-> float_charging],
                before |-> state_file]
    /\ ret' = [op |-> "estimate_capacity_from_voltage",
               value |-> estimate_capacity_from_voltage(voltage, current,
                                                        float_charging)]
    /\ tick_log' = NoTick
    /\ UNCHANGED <<state_file, ticks>>
    /\ UNCHANGED <<sched_vars, daytime_call, other_vars, producer_vars, queue, worker_vars>>

\* get_current_metrics(), for what it does to the estimator
GetCurrentMetrics(r) ==
    /\ ticks < MaxTicks
    /\ LET res == get_current_metrics(state_file, r, 0)
       IN  /\ state_file' = res.file
           /\ tick_log' = res.log
    /\ ticks' = ticks + 1
    /\ ret' = NoReturn
    /\ call' = NoEstimatorCall
    /\ UNCHANGED <<sched_vars, daytime_call, other_vars, producer_vars, queue, worker_vars>>

----------------------------------------------------------------------------
(* update_daytime_state(), called on its own *)

UpdateDaytimeState(r) ==
    /\ daytime_call' = [readings |-> r, was_daytime |-> is_daytime, called |-> TRUE]
    /\ is_daytime' = update_daytime_state(is_daytime, r)
    /\ UNCHANGED <<battery_vars, other_vars, ticks, producer_vars, queue, worker_vars, now, metrics,
                   next_upload_time, upload_interval_sec, delay, sched_pc, crossings>>

NoCall == [readings |-> [day_night |-> NoValue, day_voltage |-> 0,
                         night_voltage |-> 0, current_voltage |-> 0],
           was_daytime |-> FALSE, called |-> FALSE]

----------------------------------------------------------------------------
(* MetricsCollection, its methods called one at a time *)

\* samples to add: last, mode and mean keys, and a key only one sample has
AggregatorSamples ==
    {[timestamp |-> Datetime(1), battery_charge |-> 10,
      pv_charging_mode |-> "Float", battery_volts |-> 1],
     [timestamp |-> Datetime(2), battery_charge |-> 30,
      pv_charging_mode |-> "MPPT", battery_volts |-> 3],
     [timestamp |-> Datetime(3), battery_charge |-> 20,
      pv_charging_mode |-> "MPPT", battery_volts |-> 2],
     [timestamp |-> Datetime(4), battery_charge |-> 20,
      pv_charging_mode |-> "Not charging", battery_volts |-> 2],
     [timestamp |-> Datetime(5), battery_charge |-> 10,
      pv_charging_mode |-> "Float", battery_volts |-> 1, kwh_today |-> 7]}

NoAggregatorCall ==
    [op |-> "none", before |-> EmptyDict, result |-> EmptyDict,
     repeated |-> FALSE, previous |-> EmptyDict]

MetricsAdd(new_metrics) ==
    /\ \A k \in DOMAIN metrics : Len(metrics[k]) < MaxTicks
    /\ metrics' = add(metrics, new_metrics)
    /\ agg_call' = [op |-> "add", before |-> metrics, result |-> EmptyDict,
                    repeated |-> FALSE, previous |-> EmptyDict]
    /\ UNCHANGED <<battery_vars, producer_vars, queue, worker_vars, ticks,
                   daytime_call, hash_order, account, now, is_daytime,
                   next_upload_time, upload_interval_sec, delay, sched_pc, crossings>>

\* aggregate() assigns nothing to self._metrics
MetricsAggregate ==
    /\ agg_call' = [op |-> "aggregate", before |-> metrics,
                    result |-> aggregated_stats(metrics, hash_order),
                    repeated |-> agg_call.op = "aggregate",
                    previous |-> agg_call.result]
    /\ UNCHANGED metrics
    /\ UNCHANGED <<battery_vars, producer_vars, queue, worker_vars, ticks,
                   daytime_call, hash_order, account, now, is_daytime,
                   next_upload_time, upload_interval_sec, delay, sched_pc, crossings>>

MetricsClear ==
    /\ metrics' = clear(metrics)
    /\ agg_call' = [op |-> "clear", before |-> metrics, result |-> EmptyDict,
                    repeated |-> FALSE, previous |-> EmptyDict]
    /\ UNCHANGED <<battery_vars, producer_vars, queue, worker_vars, ticks,
                   daytime_call, hash_order, account, now, is_daytime,
                   next_upload_time, upload_interval_sec, delay, sched_pc, crossings>>

----------------------------------------------------------------------------
(* status_loop, one step per clock read or call on shared state *)

\* the readings the loop is run with
LoopSensorReadings ==
    {[status |-> 1, battery_volts |-> 552, battery_amps |-> -5],
     [status |-> 2, battery_volts |-> 552, battery_amps |-> 20]}
LoopDaylightReadings ==
    {r \in DaylightReadings :
        /\ r.day_voltage = 60 /\ r.night_voltage = 50
        /\ r.current_voltage \in {40, 55, 70}
        /\ r.day_night \in {NoValue, Value(1)}}

\* seconds a clock read can find gone since the read before it
Elapsed == {0, 1}
\* seconds time.sleep() can return late: on time, or a minute's boundary on
SleepOverruns == {0, 55}

\* line 211
select_upload_interval(daytime) ==
    IF daytime THEN day_upload_interval_sec ELSE night_upload_interval_sec

\* lines 207-215: refresh the day/night flag, pick the interval, take a sample
Sample(dr, sr) ==
    /\ sched_pc = "sample"
    /\ ticks < MaxTicks
    /\ is_daytime' = update_daytime_state(is_daytime, dr)
    /\ upload_interval_sec' = select_upload_interval(is_daytime')
    /\ LET res == get_current_metrics(state_file, sr, now)
       IN  /\ state_file' = res.file
           /\ metrics' = add(metrics, res.sample)
    /\ account' = [account EXCEPT !.sampled =
                       Append(@, [timestamp |-> now, crossings |-> crossings])]
    /\ ticks' = ticks + 1
    /\ sched_pc' = "check"
    /\ UNCHANGED <<now, next_upload_time, delay, crossings, ret,
                   tick_log, call, daytime_call, hash_order, agg_call>>
    /\ UNCHANGED <<producer_vars, queue, worker_vars>>

upload_due_always(t) == TRUE

\* line 219: the initial crossing is skipped
upload_due(t) == t > 0

\* line 217: has the boundary been crossed
Check(e) ==
    /\ sched_pc = "check"
    /\ now' = now + e
    /\ IF now' > next_upload_time
       THEN /\ crossings' = crossings + 1
            /\ sched_pc' = IF upload_due(next_upload_time) THEN "enqueue" ELSE "clear"
       ELSE /\ sched_pc' = "sleep"
            /\ UNCHANGED crossings
    /\ UNCHANGED <<is_daytime, metrics, next_upload_time, upload_interval_sec, delay, ticks, battery_vars, daytime_call, other_vars>>
    /\ UNCHANGED <<producer_vars, queue, worker_vars>>

\* line 221: metric_uploader.enqueue(metrics.aggregate())
Enqueue ==
    /\ sched_pc = "enqueue"
    /\ enqueue(aggregated_stats(metrics, hash_order))
    /\ account' = [account EXCEPT !.contributed = Append(@, Buffered(metrics))]
    /\ sched_pc' = "clear"
    /\ UNCHANGED <<now, is_daytime, metrics, next_upload_time, upload_interval_sec,
                   delay, crossings, ticks, battery_vars,
                   daytime_call, hash_order, agg_call, worker_vars>>

\* line 222: metrics.clear()
Clear ==
    /\ sched_pc = "clear"
    /\ metrics' = clear(metrics)
    /\ sched_pc' = "delay"
    /\ UNCHANGED <<now, is_daytime, next_upload_time, upload_interval_sec, delay, crossings, ticks, battery_vars, daytime_call, other_vars>>
    /\ UNCHANGED <<producer_vars, queue, worker_vars>>

\* interval - time.time() % interval
until_next_multiple(t, interval) == interval - (t % interval)

\* line 224: delay = upload_interval_sec - time.time() % upload_interval_sec
ComputeDelay(e) ==
    /\ sched_pc = "delay"
    /\ now' = now + e
    /\ delay' = until_next_multiple(now', upload_interval_sec)
    /\ sched_pc' = "next"
    /\ UNCHANGED <<is_daytime, metrics, next_upload_time, upload_interval_sec,
                   crossings, ticks, battery_vars, daytime_call, other_vars>>
    /\ UNCHANGED <<producer_vars, queue, worker_vars>>

\* line 225: next_upload_time = time.time() + delay
SetNextUploadTime(e) ==
    /\ sched_pc = "next"
    /\ now' = now + e
    /\ next_upload_time' = now' + delay
    /\ sched_pc' = "sleep"
    /\ UNCHANGED <<is_daytime, metrics, upload_interval_sec, delay, crossings, ticks, battery_vars, daytime_call, other_vars>>
    /\ UNCHANGED <<producer_vars, queue, worker_vars>>

\* lines 227-230: sleep to the next collection boundary; sleep() may overrun
Sleep(e, late) ==
    /\ sched_pc = "sleep"
    /\ delay' = until_next_multiple(now + e, collection_interval_sec)
    /\ now' = now + e + delay' + late
    /\ sched_pc' = "sample"
    /\ UNCHANGED <<is_daytime, metrics, next_upload_time, upload_interval_sec, crossings, ticks, battery_vars, daytime_call, other_vars>>
    /\ UNCHANGED <<producer_vars, queue, worker_vars>>

TakeSample == \E dr \in LoopDaylightReadings, sr \in LoopSensorReadings : Sample(dr, sr)
CheckBoundary == \E e \in Elapsed : Check(e)
Delay == \E e \in Elapsed : ComputeDelay(e)
Reschedule == \E e \in Elapsed : SetNextUploadTime(e)
SleepToNextTick == \E e \in Elapsed, late \in SleepOverruns : Sleep(e, late)

----------------------------------------------------------------------------
(* Specifications *)

vars == <<state_file, ret, tick_log, call, heap, queue, put_pending, worker_pc,
          metric_collection, json_data, in_flight, spill_file, handed, post_log,
          outcome_log, now, is_daytime, daytime_call, metrics, next_upload_time,
          upload_interval_sec, delay, sched_pc, ticks, crossings, hash_order,
          agg_call, account>>

\* the process may start at any wall-clock time
StartTimes == {538}

\* after the module's globals and status_loop's locals are set up: nothing
\* sampled, the worker thread started and waiting; everything but the state
\* file found and the dict order of the process
InitProgram ==
    /\ ret = NoReturn
    /\ tick_log = NoTick
    /\ call = NoEstimatorCall
    /\ heap = <<>>
    /\ queue = <<>>
    /\ put_pending = <<>>
    /\ worker_pc = "get"
    /\ metric_collection = 0
    /\ json_data = NoPayload
    /\ in_flight = {}
    /\ spill_file = <<>>
    /\ handed = <<>>
    /\ post_log = <<>>
    /\ outcome_log = <<>>
    /\ now \in StartTimes
    /\ is_daytime = FALSE
    /\ daytime_call = NoCall
    /\ metrics = EmptyDict
    /\ next_upload_time = 0
    /\ upload_interval_sec = 0
    /\ delay = 0
    /\ sched_pc = "sample"
    /\ ticks = 0
    /\ crossings = 0
    /\ agg_call = NoAggregatorCall
    /\ account = NoSamples

\* no state file yet, the dict order of a default CPython 2.7
Init ==
    /\ state_file = NoFile
    /\ hash_order = DefaultHashOrder
    /\ InitProgram

\* the whole program: the scheduler loop and the upload worker
Next ==
    \/ TakeSample
    \/ CheckBoundary
    \/ Enqueue
    \/ Clear
    \/ Delay
    \/ Reschedule
    \/ SleepToNextTick
    \/ Dequeue
    \/ Serialize
    \/ Post
    \/ Spill
    \/ TaskDone

Spec == Init /\ [][Next]_vars

\* the estimator under any sequence of calls
CallUpdate == \E d \in DeltaArgs : Update(d)
CallSetRemainingCapacity == \E x \in CapacityArgs : SetRemainingCapacity(x)
CallSetPercentCharged == \E p \in PercentArgs : SetPercentCharged(p)
CallGetCurrentMetrics == \E r \in SensorReadings : GetCurrentMetrics(r)

NextBattery ==
    \/ CallUpdate
    \/ CallSetRemainingCapacity
    \/ CallSetPercentCharged
    \/ GetPercentCharged
    \/ GetRemainingCapacity
    \/ CallGetCurrentMetrics

SpecBattery == Init /\ [][NextBattery]_vars

\* the state files an estimator call can find: none, an empty one, one cut
\* short or overwritten with bytes that are no JSON, one holding null, and
\* objects holding any of the three keys and perhaps a key of someone else's
StoredCapacities == {0, CapacityUnits \div 2, 2 * CapacityUnits}
StoredFactors == {1, 2, 3}
StoredObjects ==
    {DictUpdate(DictUpdate(DictUpdate(c, f), g), x) :
        c \in {NoObject} \cup {[remaining_capacity_ah |-> json_dump_number(v)] :
                                v \in StoredCapacities},
        f \in {NoObject} \cup {[charging_correction_factor |-> json_dump_number(v)] :
                                v \in StoredFactors},
        g \in {NoObject} \cup {[discharging_correction_factor |-> json_dump_number(v)] :
                                v \in StoredFactors},
        x \in {NoObject, [installed |-> json_dump_number(2016)]}}
StateFiles ==
    {[content |-> c, object |-> NoObject] : c \in {"missing", "empty", "garbage", "null"}}
    \cup {[content |-> "object", object |-> o] : o \in StoredObjects}

InitStateFile ==
    /\ state_file \in StateFiles
    /\ hash_order = DefaultHashOrder
    /\ InitProgram

\* what estimate_capacity_from_voltage is called with: voltages below, in and
\* above the float window, currents from discharge to 0.15 C and beyond
EstimateVoltages == {480, 530, 540, 552, 564, 600}
EstimateCurrents == {-5, 0, 1, 2, 5, 12, 13, 15, 19}
CallEstimateCapacityFromVoltage ==
    \E v \in EstimateVoltages, i \in EstimateCurrents, f \in BOOLEAN :
        EstimateCapacityFromVoltage(v, i, f)

\* the estimator's methods, called in any order on any state file
NextStateFile ==
    \/ CallUpdate
    \/ UpdateRaises
    \/ CallSetRemainingCapacity
    \/ CallSetPercentCharged
    \/ GetPercentCharged
    \/ GetRemainingCapacity
    \/ CallEstimateCapacityFromVoltage

SpecStateFile == InitStateFile /\ [][NextStateFile]_vars

\* the aggregator under any sequence of calls, in a process of any dict order
InitAggregator ==
    /\ state_file = NoFile
    /\ hash_order \in HashOrders
    /\ InitProgram

CallMetricsAdd == \E s \in AggregatorSamples : MetricsAdd(s)

NextAggregator ==
    \/ CallMetricsAdd
    \/ MetricsAggregate
    \/ MetricsClear

SpecAggregator == InitAggregator /\ [][NextAggregator]_vars

\* the uploader under any caller
NextUploader ==
    \/ EnqueueRecord
    \/ EnqueueList
    \/ EnqueuePut
    \/ Dequeue
    \/ Serialize
    \/ Post
    \/ Spill
    \/ TaskDone

SpecUploader == Init /\ [][NextUploader]_vars

\* the worker thread is scheduled and every POST ends (by the 30 s timeout at
\* the latest)
FairSpecUploader ==
    SpecUploader /\ WF_vars(Dequeue) /\ WF_vars(Serialize) /\ WF_vars(Post)
                 /\ WF_vars(Spill) /\ WF_vars(TaskDone) /\ WF_vars(EnqueuePut)

\* update_daytime_state under any readings
CallUpdateDaytimeState == \E r \in DaylightReadings : UpdateDaytimeState(r)

NextDaytime == CallUpdateDaytimeState

SpecDaytime == Init /\ [][NextDaytime]_vars

----------------------------------------------------------------------------
(* Properties *)

Remaining == StateManagerEnter(state_file).remaining_capacity_ah

\* C1: under any sequence of estimator calls, the persisted remaining capacity
\* and what get_remaining_capacity() returns lie in [0, total_capacity_ah]
C1_CapacityWithinBounds ==
    /\ 0 <= Remaining /\ Remaining <= CapacityUnits
    /\ ret.op = "get_remaining_capacity" =>
           /\ 0 <= ret.value /\ ret.value <= CapacityUnits
           /\ ret.value = Remaining

\* the capacity has been driven to the top and read back
C1_Witness ==
    /\ state_file.content = "object"
    /\ Remaining = CapacityUnits
    /\ ret = [op |-> "get_remaining_capacity", value |-> CapacityUnits]
    /\ ticks > 0

\* C2: a tick whose voltage-based estimate is the sentinel 0 leaves the
\* persisted capacity as it found it
C2_SentinelNeverOverwrites ==
    (tick_log.forced /\ tick_log.est = 0) => tick_log.after_set = tick_log.before

\* the job's POST failed: anything but 2xx with JSON holding no "error"
Failed(o) == ~o.accepted

FailedPayloads ==
    LET failed == SelectSeq(outcome_log, Failed)
    IN  [i \in 1..Len(failed) |-> failed[i].payload]

\* C3: the spill file is the payloads of the failed jobs, in processing order,
\* one line each (the last failure's line is due while the worker stands
\* before its write); a success adds none
C3_SpillIsFailedPayloads ==
    IF worker_pc = "spill"
    THEN /\ Len(FailedPayloads) = Len(spill_file) + 1
         /\ IsPrefix(spill_file, FailedPayloads)
         /\ FailedPayloads[Len(FailedPayloads)] = json_data
    ELSE spill_file = FailedPayloads

\* two different payloads spilled, and a job delivered
C3_Witness ==
    /\ Len(spill_file) = 2
    /\ spill_file[1] # spill_file[2]
    /\ \E i \in 1..Len(outcome_log) : ~Failed(outcome_log[i])
    /\ worker_pc = "get"

\* C4: no failure ends the worker, no job is POSTed twice, and no job that
\* has been processed is in the queue again
C4_FailureNeitherFatalNorRetried ==
    /\ worker_pc # "dead"
    /\ \A i, j \in 1..Len(post_log) : post_log[i] = post_log[j] => i = j
    /\ \A i \in 1..Len(queue), j \in 1..Len(post_log) : queue[i] # post_log[j]
    /\ \A i \in 1..Len(put_pending), j \in 1..Len(post_log) : put_pending[i] # post_log[j]

\* after a failed job the worker has gone on to POST the next one
C4_Witness ==
    /\ Len(outcome_log) >= 1
    /\ Failed(outcome_log[1])
    /\ Len(post_log) >= 2
    /\ worker_pc = "post"

\* C5: jobs are POSTed in the order they were handed to enqueue() (a list in
\* list order), and at most one POST is in flight
C5_FifoOneInFlight ==
    /\ IsPrefix(post_log, handed)
    /\ Cardinality(in_flight) <= 1

\* a POST is in flight while an enqueue(list) is half way through its puts and
\* an earlier job has been dealt with
C5_Witness ==
    /\ Len(put_pending) = 1
    /\ in_flight # {}
    /\ Len(post_log) = 2

Outcomes(j) == {i \in 1..Len(outcome_log) : outcome_log[i].ref = j}

Delivered(j) == \E i \in Outcomes(j) : ~Failed(outcome_log[i])

\* job j's payload is a line of the spill file
Spilled(j) ==
    LET failed == SelectSeq(outcome_log, Failed)
    IN  \E k \in 1..Len(spill_file) :
            k <= Len(failed) /\ failed[k].ref = j /\ spill_file[k] = failed[k].payload

\* C6: every job handed to enqueue() ends delivered or spilled, never both, and
\* is processed once
C6_ConsumedExactlyOnce ==
    /\ [](\A j \in 1..MaxJobs :
              /\ Cardinality(Outcomes(j)) <= 1
              /\ ~(Delivered(j) /\ Spilled(j)))
    /\ \A j \in 1..MaxJobs :
           (j <= Len(heap)) ~> [](Delivered(j) # Spilled(j))

\* every job dealt with, one delivered and one spilled among them
C6_Witness ==
    /\ Len(heap) = MaxJobs
    /\ \A j \in 1..MaxJobs : Delivered(j) # Spilled(j)
    /\ \E j, k \in 1..MaxJobs : Delivered(j) /\ Spilled(k)

\* C7: whatever the worker is doing and however long the queue, a call of
\* enqueue() can be made and each of its puts can complete (up to the bound on
\* the records the model allocates)
C7_EnqueueNeverBlocks ==
    /\ (put_pending = <<>> /\ Allocated < MaxJobs) => ENABLED EnqueueRecord
    /\ (put_pending = <<>> /\ Allocated + 2 <= MaxJobs) => ENABLED EnqueueList
    /\ put_pending # <<>> => ENABLED EnqueuePut

\* enqueue() can go ahead while a POST is in flight and a job is waiting
C7_Witness ==
    /\ worker_pc = "post"
    /\ Len(queue) = 1
    /\ put_pending = <<>>
    /\ Allocated < MaxJobs
    /\ ENABLED EnqueueRecord

Max(a, b) == IF a >= b THEN a ELSE b

\* the record is r, or r with its timestamp formatted by the worker since
SameRecord(rec, r) == rec = r \/ rec = [r EXCEPT !["timestamp"] = strftime(@)]

\* C8: the first crossing enqueues nothing; each later one enqueues the
\* aggregate of the histories once, then clears them, then sets the next
\* boundary from the interval of the tick's day/night state
C8_CrossingProtocol ==
    /\ [](/\ Len(handed) = IF sched_pc = "enqueue" THEN crossings - 2
                           ELSE Max(crossings - 1, 0)
          /\ sched_pc = "enqueue" => metrics # EmptyDict
          /\ (sched_pc = "clear" /\ crossings >= 2) =>
                 /\ metrics # EmptyDict
                 /\ \E r \in Aggregates(metrics) : SameRecord(heap[Len(heap)], r)
          /\ sched_pc \in {"delay", "next"} => metrics = EmptyDict
          /\ sched_pc = "next" =>
                 delay = until_next_multiple(now, IF is_daytime
                                                  THEN day_upload_interval_sec
                                                  ELSE night_upload_interval_sec))
    /\ [][(sched_pc = "next" /\ sched_pc' = "sleep") =>
              next_upload_time' = now' + delay]_vars

\* three crossings, two uploads, by day
C8_Witness ==
    /\ crossings = 3
    /\ Len(handed) = 2
    /\ is_daytime
    /\ sched_pc = "sleep"

\* C9: the boundary set at time T is T + (I - T mod I), the next multiple of
\* the interval after T, and the sleep to the next tick lies in
\* (0, collection_interval_sec]
C9_BoundaryMath ==
    [][/\ (sched_pc = "next" /\ sched_pc' = "sleep") =>
              /\ next_upload_time' = now' + until_next_multiple(now', upload_interval_sec)
              /\ next_upload_time' % upload_interval_sec = 0
       /\ (sched_pc = "sleep" /\ sched_pc' = "sample") =>
              (0 < delay' /\ delay' <= collection_interval_sec)]_vars

\* C10: with a Day/Night value the state is day iff the value is 0; without
\* one the state turns night only at or below the night threshold, turns day
\* only at or above the day threshold, and between the two stays as it was
C10_Hysteresis ==
    daytime_call.called =>
        LET r == daytime_call.readings
            was == daytime_call.was_daytime
        IN  IF r.day_night.has_value
            THEN is_daytime = (r.day_night.value = 0)
            ELSE /\ (was /\ ~is_daytime) => r.current_voltage <= r.night_voltage
                 /\ (~was /\ is_daytime) => r.current_voltage >= r.day_voltage
                 /\ (r.night_voltage < r.current_voltage
                         /\ r.current_voltage < r.day_voltage) => is_daytime = was

\* a reading in the dead zone has left the day state standing
C10_Witness ==
    /\ daytime_call.called
    /\ ~daytime_call.readings.day_night.has_value
    /\ daytime_call.readings.night_voltage < daytime_call.readings.current_voltage
    /\ daytime_call.readings.current_voltage < daytime_call.readings.day_voltage
    /\ daytime_call.was_daytime
    /\ is_daytime

----------------------------------------------------------------------------
(* The estimator on any state file *)

\* the record a method works on, given the file it finds
Found == StateManagerEnter(call.before)
\* the record the next method will work on
Left == StateManagerEnter(state_file)

StateManagerOps ==
    {"update", "update(None)", "set_remaining_capacity", "set_percent_charged",
     "get_percent_charged", "get_remaining_capacity"}

C12_PersistenceRoundTrip ==
    /\ (call.op = "set_remaining_capacity" /\ ~EnterRaises(call.before)) =>
           Left.remaining_capacity_ah = clamp_value(call.arg, 0, CapacityUnits)
    /\ (call.op \in {"get_percent_charged", "get_remaining_capacity"}
           /\ ~EnterRaises(call.before)) =>
           /\ Left = Found
           /\ call.op = "get_remaining_capacity" =>
                  ret.value = clamp_value(Found.remaining_capacity_ah, 0, CapacityUnits)

\* a read of a file an earlier call wrote has left it as it was
C12_Witness ==
    /\ call.op = "get_percent_charged"
    /\ call.before = state_file
    /\ Left.remaining_capacity_ah = CapacityUnits \div 2
    /\ Left.charging_correction_factor = 2
    /\ ret.value = 50 * PercentDen

\* C13: update(d) adds d times the charging factor when d > 0, d times the
\* discharging factor when d < 0 and nothing when d = 0, clamps the sum and
\* leaves both factors alone
C13_UpdateAppliesFactor ==
    (call.op = "update" /\ ~EnterRaises(call.before)) =>
        LET d == call.arg
            applied == IF d > 0 THEN d * Found.charging_correction_factor
                       ELSE IF d < 0 THEN d * Found.discharging_correction_factor
                       ELSE 0
        IN  /\ Left.remaining_capacity_ah =
                   clamp_value(Found.remaining_capacity_ah + applied, 0, CapacityUnits)
            /\ Left.charging_correction_factor = Found.charging_correction_factor
            /\ Left.discharging_correction_factor = Found.discharging_correction_factor

\* a charge of a quarter of the capacity, doubled by the charging factor
C13_Witness ==
    /\ call.op = "update"
    /\ call.arg = CapacityUnits \div 4
    /\ call.before.content = "object"
    /\ Found.remaining_capacity_ah = 0
    /\ Found.charging_correction_factor = 2
    /\ Found.discharging_correction_factor = 3
    /\ Left.remaining_capacity_ah = CapacityUnits \div 2

\* C14: the estimate is the capacity at a C-rate of 0 to 0.01, the capacity
\* times 1.0 + 0.2 * (0.01 - C-rate) at a C-rate above 0.01 up to 0.1, both
\* only when float charging within 0.1 V per cell of the float voltage, and 0
\* otherwise; the call leaves the state file alone
C14_EstimateFromVoltage ==
    call.op = "estimate_capacity_from_voltage" =>
        LET a == call.arg
            \* 2.2 V to 2.4 V per cell, in tenths of a volt over the bank
            in_window == 22 * cell_count <= a.voltage /\ a.voltage <= 24 * cell_count
            low == 0 <= a.current /\ 100 * a.current <= total_capacity_ah
            high == 100 * a.current > total_capacity_ah
                    /\ 10 * a.current <= total_capacity_ah
        IN  /\ (a.float_charging /\ in_window /\ low) => ret.value = CapacityUnits
            /\ (a.float_charging /\ in_window /\ high) =>
                   \* capacity * (1 + 0.2 * (0.01 - current / capacity)), times 1000
                   1000 * ret.value =
                       UnitsPerAh * (1000 * total_capacity_ah
                                     + 2 * total_capacity_ah - 200 * a.current)
            /\ ~(a.float_charging /\ in_window /\ (low \/ high)) => ret.value = 0
            /\ state_file = call.before

\* floating at 5 A (0.04 C): a little under the capacity
C14_Witness ==
    /\ call.op = "estimate_capacity_from_voltage"
    /\ call.arg = [voltage |-> 552, current |-> 5, float_charging |-> TRUE]
    /\ ret.value < CapacityUnits
    /\ ret.value > (CapacityUnits * 99) \div 100

----------------------------------------------------------------------------
(* The aggregator *)

LastKeys == {"timestamp", "kwh_today", "kwh_total", "battery_charge"}
ModeKeys == {"pv_charging_mode"}

\* C15: aggregate() returns one entry for each key some add() of the cycle
\* brought: for a last key the value appended last, for a key that is neither
\* a last nor a mode key the mean of its values to the nearest hundredth
C15_AggregatePolicies ==
    agg_call.op = "aggregate" =>
        /\ DOMAIN agg_call.result = DOMAIN metrics
        /\ \A k \in DOMAIN metrics :
               LET s == metrics[k]
                   v == agg_call.result[k]
               IN  /\ k \in LastKeys => v = s[Len(s)]
                   /\ k \notin LastKeys \cup ModeKeys =>
                          2 * Abs(100 * SeqSum(s) - v * Len(s)) <= Len(s)

\* the histories [1, 3, 2]: mean 2.00, last 20
C15_Witness ==
    /\ agg_call.op = "aggregate"
    /\ DOMAIN metrics = {"timestamp", "battery_charge", "pv_charging_mode",
                         "battery_volts"}
    /\ metrics["battery_volts"] = <<1, 3, 2>>
    /\ agg_call.result["battery_volts"] = 200
    /\ metrics["battery_charge"] = <<10, 30, 20>>
    /\ agg_call.result["battery_charge"] = 20

\* the place of the first v in s
FirstSeen(s, v) == CHOOSE i \in 1..Len(s) : s[i] = v /\ \A j \in 1..(i - 1) : s[j] # v

\* C16: for the mode key aggregate() returns a most frequent value, and of
\* several equally frequent ones the one appended first
C16_ModeTieFirstSeen ==
    (agg_call.op = "aggregate" /\ "pv_charging_mode" \in DOMAIN metrics) =>
        LET s == metrics["pv_charging_mode"]
            v == agg_call.result["pv_charging_mode"]
        IN  /\ v \in MostCommon(s)
            /\ \A w \in MostCommon(s) : FirstSeen(s, v) <= FirstSeen(s, w)

\* C17: aggregate() leaves the histories as they are and returns the same
\* when called again at once, add() only appends, and after clear() there is
\* no key and aggregate() returns an empty record
C17_AggregateIsPureRead ==
    /\ agg_call.op = "aggregate" =>
           /\ metrics = agg_call.before
           /\ agg_call.repeated => agg_call.result = agg_call.previous
    /\ agg_call.op = "add" =>
           \A k \in DOMAIN agg_call.before :
               k \in DOMAIN metrics /\ IsPrefix(agg_call.before[k], metrics[k])
    /\ agg_call.op = "clear" =>
           /\ DOMAIN metrics = {}
           /\ DOMAIN aggregated_stats(metrics, hash_order) = {}

\* a second aggregate() of two samples returns what the first did
C17_Witness ==
    /\ agg_call.op = "aggregate"
    /\ agg_call.repeated
    /\ agg_call.previous = agg_call.result
    /\ "timestamp" \in DOMAIN metrics
    /\ Len(metrics["timestamp"]) = 2

----------------------------------------------------------------------------
(* Records and samples in the whole program *)

\* C18: once a record has been handed to enqueue(), no step of the scheduler,
\* the aggregator or the worker changes any of its fields
C18_JobImmutable ==
    [][\A ref \in 1..Len(heap) : heap'[ref] = heap[ref]]_vars

\* the records whose histories held the sample of that timestamp
RecordsOf(timestamp) ==
    {i \in 1..Len(account.contributed) : timestamp \in account.contributed[i]}

\* C19: no sample is in two enqueued records; a sample taken before the
\* first crossing is in none; a sample taken after c >= 1 crossings is in the
\* histories until the next crossing and from then on in record c alone, the
\* one that crossing builds
C19_SampleAccounting ==
    /\ \A i, j \in 1..Len(account.contributed) :
           i # j => account.contributed[i] \cap account.contributed[j] = {}
    /\ \A n \in 1..Len(account.sampled) :
           LET s == account.sampled[n]
               awaited == crossings = s.crossings
                          \/ (crossings = s.crossings + 1 /\ sched_pc = "enqueue")
           IN  /\ s.crossings = 0 => RecordsOf(s.timestamp) = {}
               /\ (s.crossings = 0 /\ sched_pc \in {"delay", "next", "sleep", "sample"}
                      /\ crossings > 0) => s.timestamp \notin Buffered(metrics)
               /\ (s.crossings > 0 /\ awaited) =>
                      s.timestamp \in Buffered(metrics) /\ RecordsOf(s.timestamp) = {}
               /\ (s.crossings > 0 /\ ~awaited) =>
                      /\ RecordsOf(s.timestamp) = {s.crossings}
                      /\ sched_pc # "clear" => s.timestamp \notin Buffered(metrics)

\* the first sample went with the first crossing, the next two are in the one
\* record enqueued since
C19_Witness ==
    /\ Len(account.sampled) = 3
    /\ Len(account.contributed) = 1
    /\ account.contributed[1] =
           {account.sampled[2].timestamp, account.sampled[3].timestamp}
    /\ account.sampled[2].timestamp # account.sampled[3].timestamp
    /\ RecordsOf(account.sampled[1].timestamp) = {}
    /\ metrics = EmptyDict

\* C20: aggregate() is called on histories that hold a sample, every record
\* waiting in the queue has a timestamp no one has formatted yet, and the
\* worker's strftime never fails
C20_JobsCarryTimestamp ==
    /\ sched_pc = "enqueue" =>
           "timestamp" \in DOMAIN metrics /\ Len(metrics["timestamp"]) >= 1
    /\ \A i \in 1..Len(queue) :
           DOMAIN heap[queue[i]] # {} /\ CanFormat(heap[queue[i]])
    /\ worker_pc = "serialize" => CanFormat(heap[metric_collection])
    /\ worker_pc # "dead"

\* the worker has formatted the timestamp of a record of the scheduler's and
\* posted it
C20_Witness ==
    /\ worker_pc = "post"
    /\ crossings >= 2
    /\ heap[metric_collection]["timestamp"].fmt = "str"
    /\ json_data = json_dumps(heap[metric_collection])

====
